---- MODULE Spec2Model ----
(***************************************************************************)
(* Model of the product catalog loader and the three-stage product search  *)
(* of src/app.py (load_data, normalize_product, get_top_products,          *)
(* search_products).                                                       *)
(*                                                                         *)
(* Python strings are sequences of one-character strings, so that          *)
(* lower(), strip(), == and the substring test `in` are computed.          *)
(* A JSON value is a record [t, s]: t is its type and s its text           *)
(* (the characters of a string, the decimal digits of a number).           *)
(* A Python dict is a sequence of [k, v] entries in insertion order.       *)
(***************************************************************************)
EXTENDS Integers, Sequences, FiniteSets, TLC

VARIABLES
    disk,               \* the files under DATA_DIR (input of load_data)
    pc,                 \* position of load_data: boot, matrix, items, recs, serving
    todo,               \* items of data_list the loop of load_data has not visited
    PRODUCTS_MAP,       \* global: product id -> raw record
    PRODUCT_NAMES_MAP,  \* global: trimmed product name -> product id
    RECOMMENDATIONS,    \* global: the parsed recommendation file
    before,             \* the three globals as they were when load_data was entered
    resp                \* what the last request handler did

vars == <<disk, pc, todo, PRODUCTS_MAP, PRODUCT_NAMES_MAP, RECOMMENDATIONS, before, resp>>

(***************************************************************************)
(* Bounds and program constants                                            *)
(***************************************************************************)
MaxLen == 2

ResultLimit == 20

NameScore == 10

BrandScore == 5

(***************************************************************************)
(* Strings                                                                 *)
(***************************************************************************)
Min(S) == CHOOSE x \in S : \A y \in S : x <= y

Max(S) == CHOOSE x \in S : \A y \in S : x >= y

LowerChar(c) ==
    CASE c = "A" -> "a"
      [] c = "B" -> "b"
      [] c = "E" -> "e"
      [] c = "N" -> "n"
      [] c = "O" -> "o"
      [] OTHER -> c

\* str.lower()
Lower(s) == [i \in 1..Len(s) |-> LowerChar(s[i])]

\* str.strip(): whitespace removed at both ends only
Strip(s) ==
    LET keep == {i \in 1..Len(s) : s[i] # " "}
    IN  IF keep = {} THEN <<>> ELSE SubSeq(s, Min(keep), Max(keep))

\* Python's  q in s  on strings
Contains(q, s) ==
    \E i \in 0..(Len(s) - Len(q)) : SubSeq(s, i + 1, i + Len(q)) = q

Digit(n) == CASE n = 0 -> "0" [] n = 1 -> "1" [] n = 2 -> "2" [] n = 3 -> "3"
              [] n = 4 -> "4" [] n = 5 -> "5" [] n = 6 -> "6" [] n = 7 -> "7"
              [] n = 8 -> "8" [] OTHER -> "9"

DigitVal(c) == CHOOSE n \in 0..9 : Digit(n) = c

Digits == {Digit(n) : n \in 0..9}

\* the decimal text of a number below 100
NumStr(n) == IF n < 10 THEN <<Digit(n)>> ELSE <<Digit(n \div 10), Digit(n % 10)>>

NoneStr == <<"N", "o", "n", "e">>

NAStr == <<"N", "/", "A">>

(***************************************************************************)
(* JSON values and Python dicts                                            *)
(***************************************************************************)
Absent == [t |-> "absent", s |-> <<>>]

Null == [t |-> "null", s |-> <<>>]

Str(s) == [t |-> "str", s |-> s]

Num(n) == [t |-> "num", s |-> NumStr(n)]

\* dict.get(key, default) on a field that may be absent
Get(v, default) == IF v.t = "absent" THEN default ELSE v

\* str(v)
PyStr(v) == IF v.t = "null" THEN NoneStr ELSE v.s

EmptyDict == <<>>

DictHas(d, k) == \E i \in 1..Len(d) : d[i].k = k

DictGet(d, k) == d[CHOOSE i \in 1..Len(d) : d[i].k = k].v

\* d[k] = v: an existing key keeps its place
DictPut(d, k, v) ==
    IF DictHas(d, k)
    THEN [i \in 1..Len(d) |-> IF d[i].k = k THEN [k |-> k, v |-> v] ELSE d[i]]
    ELSE Append(d, [k |-> k, v |-> v])

Take(s, n) == SubSeq(s, 1, IF Len(s) < n THEN Len(s) ELSE n)

(***************************************************************************)
(* The input files.  An element of the matrix file is a record (dict), a   *)
(* bare string, or some other JSON value (a number, null, a list).         *)
(***************************************************************************)
Rec(idn, id, name, brand, price, disc) ==
    [kind |-> "dict", product_id_numeric |-> idn, product_id |-> id,
     product_name |-> name, Brand |-> brand,
     actual_price |-> price, discounted_price |-> disc]

BareString == [Rec(Absent, Absent, Absent, Absent, Absent, Absent) EXCEPT !.kind = "str"]

NotARecord == [Rec(Absent, Absent, Absent, Absent, Absent, Absent) EXCEPT !.kind = "other"]

\* {"product_id_numeric": 1, "product_name": "ab", "Brand": "A", "actual_price": "10"}
ItemAb == Rec(Num(1), Absent, Str(<<"a", "b">>), Str(<<"A">>), Str(<<"1", "0">>), Absent)

\* {"product_id_numeric": 2, "product_name": "Ba", "Brand": "b", "actual_price": 5, "discounted_price": 3}
ItemBa == Rec(Num(2), Absent, Str(<<"B", "a">>), Str(<<"b">>), Num(5), Num(3))

\* {"product_id": "1", "product_name": " ab ", "actual_price": "x", "discounted_price": "4"}: no Brand
ItemNoBrand == Rec(Absent, Str(<<"1">>), Str(<<" ", "a", "b", " ">>), Absent, Str(<<"x">>), Str(<<"4">>))

\* {"product_name": "a", "Brand": "None"}: neither id field
ItemNoId == Rec(Absent, Absent, Str(<<"a">>), Str(NoneStr), Absent, Absent)

\* {"product_id_numeric": null, "product_id": "3", "product_name": "b", "Brand": "a"}
ItemNullId == Rec(Null, Str(<<"3">>), Str(<<"b">>), Str(<<"a">>), Absent, Absent)

\* {"product_id_numeric": "", "product_name": "ab"}: the id is the empty string
ItemEmptyId == Rec(Str(<<>>), Absent, Str(<<"a", "b">>), Absent, Absent, Num(7))

\* {"product_id_numeric": 2, "product_name": null, "Brand": "b"}
ItemNullName == Rec(Num(2), Absent, Null, Str(<<"b">>), Null, Absent)

\* {"product_id_numeric": 3, "Brand": ""}: no name, empty brand
ItemNoName == Rec(Num(3), Absent, Absent, Str(<<>>), Absent, Absent)

Items == {ItemAb, ItemBa, ItemNoBrand, ItemNoId, ItemNullId, ItemEmptyId,
          ItemNullName, ItemNoName, BareString, NotARecord}

SeqsUpTo(S, n) == UNION {[1..k -> S] : k \in 0..n}

\* a file: absent, not JSON, a JSON list, a JSON mapping (its values in
\* order), or another JSON value
AbsentFile == [kind |-> "absent", items |-> <<>>]

MalformedFile == [kind |-> "malformed", items |-> <<>>]

ScalarFile == [kind |-> "scalar", items |-> <<>>]

ListFile(s) == [kind |-> "list", items |-> s]

MapFile(s) == [kind |-> "dict", items |-> s]

\* more records than one response holds: ids 1 .. ResultLimit + 1, all
\* named "ab" with brand "A"
BulkItems == [i \in 1..(ResultLimit + 1) |-> [ItemAb EXCEPT !.product_id_numeric = Num(i)]]

MatrixFiles ==
    {AbsentFile, MalformedFile, ScalarFile, MapFile(<<ItemBa, ItemAb>>), ListFile(BulkItems)}
    \cup {ListFile(s) : s \in SeqsUpTo(Items, MaxLen)}

\* a recommendation stub: a record with or without product_name, or not a record
Stub(name) == [kind |-> "dict", product_name |-> name]

BadStub == [kind |-> "other", product_name |-> Absent]

\* the value under one key of the recommendation file
StubList(s) == [kind |-> "list", stubs |-> s]

NotAList == [kind |-> "scalar", stubs |-> <<>>]

\* the recommendation file: kind as for the matrix file; for a mapping the
\* entries are key -> stub list, for a list the k of each entry is an element
RecsMap(e) == [kind |-> "dict", entries |-> e]

StubAb == Stub(Str(<<"a", "b">>))

StubBa == Stub(Str(<<"B", "a">>))

StubUnknown == Stub(Str(<<"z">>))

Key1 == <<"1">>

Entry(k, v) == [k |-> k, v |-> v]

RecFiles ==
    { [kind |-> "absent", entries |-> <<>>],
      [kind |-> "malformed", entries |-> <<>>],
      [kind |-> "scalar", entries |-> <<>>],
      [kind |-> "list", entries |-> <<Entry(Key1, NotAList)>>],
      RecsMap(<<Entry(Key1, StubList(<<StubBa, StubUnknown, Stub(Absent), StubAb>>))>>),
      RecsMap(<<Entry(Key1, StubList(<<StubUnknown>>)), Entry(<<"2">>, StubList(<<StubAb>>))>>),
      RecsMap(<<Entry(<<>>, StubList(<<StubBa>>)), Entry(NAStr, StubList(<<StubBa>>))>>),
      RecsMap(<<Entry(Key1, StubList(<<StubAb, BadStub>>))>>),
      RecsMap(<<Entry(Key1, NotAList)>>),
      RecsMap(<<Entry(Key1, StubList([i \in 1..(ResultLimit + 1) |-> StubAb]))>>) }

NoRecFile == [kind |-> "absent", entries |-> <<>>]

\* DATA_DIR: whether it exists, the two candidate matrix files in the order
\* load_data tries them, and the recommendation file
Disk(d, m1, m2, r) == [dir |-> d, matrix |-> <<m1, m2>>, recs |-> r]

Disks ==
    {Disk(FALSE, AbsentFile, AbsentFile, NoRecFile)}
    \cup {Disk(TRUE, m, AbsentFile, r) : m \in MatrixFiles, r \in RecFiles}
    \cup {Disk(TRUE, m, ListFile(<<ItemBa>>), NoRecFile) : m \in {AbsentFile, ListFile(<<ItemAb>>)}}

(***************************************************************************)
(* load_data                                                               *)
(***************************************************************************)
EmptyRecs == RecsMap(<<>>)

Globals(cat, names, recs) == [cat |-> cat, names |-> names, recs |-> recs]

\* the first existing candidate file name
MatrixPath(d) ==
    IF d.matrix[1].kind # "absent" THEN d.matrix[1] ELSE d.matrix[2]

\* data_list = raw if list, its values if dict, else []
DataList(f) == IF f.kind \in {"list", "dict"} THEN f.items ELSE <<>>

\* pid = str(item.get("product_id_numeric", item.get("product_id", "N/A")))
PidOf(item) ==
    PyStr(Get(item.product_id_numeric, Get(item.product_id, Str(NAStr))))

\* pid != "None"
KeepPid(pid) == pid # NoneStr

\* One iteration of the loop over data_list.  raised: the iteration threw
\* (item.get on a value that is no dict, .strip() on a name that is no
\* string); the except clause around the loop then ends the loop.
ItemStep(cat, names, item) ==
    IF item.kind = "str"
    THEN [cat |-> cat, names |-> names, raised |-> FALSE]
    ELSE IF item.kind # "dict"
    THEN [cat |-> cat, names |-> names, raised |-> TRUE]
    ELSE LET pid  == PidOf(item)
             name == Get(item.product_name, Str(<<>>))
             cat1 == DictPut(cat, pid, item)
         IN  IF ~KeepPid(pid)
             THEN [cat |-> cat, names |-> names, raised |-> FALSE]
             ELSE IF name.t # "str"
             THEN [cat |-> cat1, names |-> names, raised |-> TRUE]
             ELSE [cat |-> cat1, names |-> DictPut(names, Strip(name.s), pid),
                   raised |-> FALSE]

\* RECOMMENDATIONS = json.load(f), kept as it was when the file is absent
\* or does not parse
LoadRecs(old, f) == IF f.kind \in {"absent", "malformed"} THEN old ELSE f

RECURSIVE LoadItems(_, _, _)
LoadItems(cat, names, items) ==
    IF items = <<>>
    THEN [cat |-> cat, names |-> names]
    ELSE LET r == ItemStep(cat, names, Head(items))
         IN  IF r.raised
             THEN [cat |-> r.cat, names |-> r.names]
             ELSE LoadItems(r.cat, r.names, Tail(items))

\* the three globals when load_data has returned
LoadData(d) ==
    IF ~d.dir
    THEN Globals(EmptyDict, EmptyDict, EmptyRecs)
    ELSE LET r == LoadItems(EmptyDict, EmptyDict, DataList(MatrixPath(d)))
         IN  Globals(r.cat, r.names, LoadRecs(EmptyRecs, d.recs))

Current == Globals(PRODUCTS_MAP, PRODUCT_NAMES_MAP, RECOMMENDATIONS)

\* resp before any request: op is the handler, q its parameter, at the pc it
\* ran at, seen the globals it read, stage/hits/body what it answered
NoResp ==
    [op |-> "none", q |-> Null, at |-> "boot",
     seen |-> Globals(EmptyDict, EmptyDict, EmptyRecs),
     stage |-> "none", hits |-> <<>>, body |-> <<>>]

\* lines 62-68: the globals are emptied, then DATA_DIR is looked for
LoadBegin ==
    /\ before' = Current
    /\ PRODUCTS_MAP' = EmptyDict
    /\ PRODUCT_NAMES_MAP' = EmptyDict
    /\ RECOMMENDATIONS' = EmptyRecs
    /\ todo' = <<>>
    /\ resp' = NoResp
    /\ pc' = IF disk'.dir THEN "matrix" ELSE "serving"

\* on_startup: the one call of load_data the program makes
Startup ==
    /\ pc = "boot"
    /\ UNCHANGED disk
    /\ LoadBegin

\* lines 70-82: the matrix file is found, read and turned into data_list
LoadOpenMatrix ==
    /\ pc = "matrix"
    /\ todo' = DataList(MatrixPath(disk))
    /\ pc' = IF todo' = <<>> THEN "recs" ELSE "items"
    /\ UNCHANGED <<disk, PRODUCTS_MAP, PRODUCT_NAMES_MAP, RECOMMENDATIONS, before, resp>>

\* lines 84-93: one item of data_list
LoadItem ==
    /\ pc = "items"
    /\ LET r == ItemStep(PRODUCTS_MAP, PRODUCT_NAMES_MAP, Head(todo))
       IN  /\ PRODUCTS_MAP' = r.cat
           /\ PRODUCT_NAMES_MAP' = r.names
           /\ todo' = IF r.raised THEN <<>> ELSE Tail(todo)
    /\ pc' = IF todo' = <<>> THEN "recs" ELSE "items"
    /\ UNCHANGED <<disk, RECOMMENDATIONS, before, resp>>

\* lines 95-101: the recommendation file
LoadRecommendations ==
    /\ pc = "recs"
    /\ RECOMMENDATIONS' = LoadRecs(RECOMMENDATIONS, disk.recs)
    /\ pc' = "serving"
    /\ UNCHANGED <<disk, todo, PRODUCTS_MAP, PRODUCT_NAMES_MAP, before, resp>>

(***************************************************************************)
(* normalize_product.  Prices are modelled as naturals; the pass-through   *)
(* fields rating, img_link and p_link are left out.                        *)
(***************************************************************************)
IsNumeric(s) == Len(s) > 0 /\ \A i \in 1..Len(s) : s[i] \in Digits

RECURSIVE NumVal(_)
NumVal(s) ==
    IF s = <<>> THEN 0 ELSE 10 * NumVal(SubSeq(s, 1, Len(s) - 1)) + DigitVal(s[Len(s)])

\* float(v) succeeds on a number and on a string that spells one
FloatOk(v) == v.t = "num" \/ (v.t = "str" /\ IsNumeric(Strip(v.s)))

\* try: float(v)  except: default
FloatOr(v, default) == IF FloatOk(v) THEN NumVal(Strip(v.s)) ELSE default

UnknownStr == <<"U", "n", "k", "n", "o", "w", "n">>

GenericStr == <<"G", "e", "n", "e", "r", "i", "c">>

normalize_product(p) ==
    LET price == IF p.actual_price.t = "absent" THEN 0 ELSE FloatOr(p.actual_price, 0)
        disc  == IF p.discounted_price.t = "absent" THEN price
                 ELSE FloatOr(p.discounted_price, price)
    IN  [p_id |-> PyStr(Get(p.product_id_numeric, Null)),
         name |-> Get(p.product_name, Str(UnknownStr)),
         brand |-> Get(p.Brand, Str(GenericStr)),
         prices |-> price,
         discounted_price |-> disc]

(***************************************************************************)
(* search_products and get_top_products                                    *)
(***************************************************************************)
\* the elements of s at the indices in S, in order
RECURSIVE Pick(_, _, _)
Pick(s, S, i) ==
    IF i > Len(s) THEN <<>>
    ELSE (IF i \in S THEN <<s[i]>> ELSE <<>>) \o Pick(s, S, i + 1)

\* query = (q or "").lower().strip()
Query(q) == Strip(Lower(IF q.t = "str" THEN q.s ELSE <<>>))

\* str(p.get("Brand")).lower()
BrandText(p) == Lower(PyStr(Get(p.Brand, Null)))

\* p.get("product_name", "").lower() throws when the name is no string
NameBad(p) == Get(p.product_name, Str(<<>>)).t # "str"

NameText(p) == Lower(Get(p.product_name, Str(<<>>)).s)

\* line 226
BrandMatches(query, cat) ==
    Pick(cat, {i \in 1..Len(cat) : query = BrandText(cat[i].v)}, 1)

\* lines 249-253
Score(query, p) ==
    (IF Contains(query, NameText(p)) THEN NameScore ELSE 0)
    + (IF Contains(query, BrandText(p)) THEN BrandScore ELSE 0)

\* list.sort(key=score, reverse=True): stable, so x goes behind every element
\* whose score is not below its own
RECURSIVE InsertDesc(_, _)
InsertDesc(s, x) ==
    IF s = <<>> THEN <<x>>
    ELSE IF Head(s).score >= x.score THEN <<Head(s)>> \o InsertDesc(Tail(s), x)
    ELSE <<x>> \o s

RECURSIVE SortDesc(_)
SortDesc(s) ==
    IF s = <<>> THEN <<>>
    ELSE InsertDesc(SortDesc(SubSeq(s, 1, Len(s) - 1)), s[Len(s)])

\* the slice forgotten
TruncateOff(s) == s

\* s[:20]
Truncate(s) == Take(s, ResultLimit)

\* a response: the stage that made it, the catalog entries it holds and
\* their normalized form; stage "raised" is an exception leaving the handler
Result(stage, hits) ==
    [stage |-> stage, hits |-> hits,
     body |-> [i \in 1..Len(hits) |-> normalize_product(hits[i].v)]]

Raised == [stage |-> "raised", hits |-> <<>>, body |-> <<>>]

\* lines 246-257
Fallback(query, cat) ==
    IF \E i \in 1..Len(cat) : NameBad(cat[i].v)
    THEN Raised
    ELSE LET keep   == {i \in 1..Len(cat) : Score(query, cat[i].v) > 0}
             scored == [i \in 1..Len(cat) |->
                           [score |-> Score(query, cat[i].v), k |-> cat[i].k, v |-> cat[i].v]]
             sorted == SortDesc(Pick(scored, keep, 1))
         IN  Result("fallback",
                    Truncate([i \in 1..Len(sorted) |-> Entry(sorted[i].k, sorted[i].v)]))

\* lines 239-242: the records the stubs resolve to
Resolve(stubs, g) ==
    LET found == {i \in 1..Len(stubs) :
                     /\ stubs[i].product_name.t = "str"
                     /\ DictHas(g.names, stubs[i].product_name.s)}
        pid(i) == DictGet(g.names, stubs[i].product_name.s)
    IN  Pick([i \in 1..Len(stubs) |->
                 IF i \in found THEN Entry(pid(i), DictGet(g.cat, pid(i))) ELSE Entry(<<>>, NotARecord)],
             found, 1)

\* if matched_id and ...: a string is true when it is not empty
Truthy(id) == id # <<>>

\* lines 230-257
Recommend(query, g) ==
    LET cat  == g.cat
        hit  == {i \in 1..Len(cat) : ~NameBad(cat[i].v) /\ Contains(query, NameText(cat[i].v))}
        bad  == {i \in 1..Len(cat) : NameBad(cat[i].v)}
        matched_id == cat[Min(hit)].k
    IN  IF bad # {} /\ (hit = {} \/ Min(bad) < Min(hit))
        THEN Raised
        ELSE IF hit = {} \/ ~Truthy(matched_id)
        THEN Fallback(query, cat)
        ELSE IF g.recs.kind = "scalar"
        THEN Raised
        ELSE IF ~DictHas(g.recs.entries, matched_id)
        THEN Fallback(query, cat)
        ELSE IF g.recs.kind = "list"
        THEN Raised
        ELSE LET rec_list == DictGet(g.recs.entries, matched_id)
                 results  == Resolve(rec_list.stubs, g)
             IN  IF rec_list.kind # "list"
                    \/ \E i \in 1..Len(rec_list.stubs) : rec_list.stubs[i].kind # "dict"
                 THEN Raised
                 ELSE IF results # <<>>
                 THEN Result("recs", Truncate(results))
                 ELSE Fallback(query, cat)

\* search_products without "if not query: return []"
search_products_unguarded(q, g) ==
    LET query == Query(q)
        brand_matches == BrandMatches(query, g.cat)
    IN  IF brand_matches # <<>>
        THEN Result("brand", Truncate(brand_matches))
        ELSE Recommend(query, g)

\* lines 218-257
search_products(q, g) ==
    LET query == Query(q)
        brand_matches == BrandMatches(query, g.cat)
    IN  IF query = <<>>
        THEN Result("empty", <<>>)
        ELSE IF brand_matches # <<>>
        THEN Result("brand", Truncate(brand_matches))
        ELSE Recommend(query, g)

\* lines 210-214
get_top_products(g) == Result("top", Truncate(g.cat))

Queries ==
    {Null, Str(<<>>), Str(<<" ", " ">>), Str(<<"a">>), Str(<<" ", "A", " ">>), Str(<<"b">>),
     Str(<<"a", "b">>), Str(<<"N", "O", "N", "E">>), Str(<<"o", "n">>), Str(<<"z">>)}

Respond(op, q, r) ==
    /\ resp' = [op |-> op, q |-> q, at |-> pc, seen |-> Current,
                stage |-> r.stage, hits |-> r.hits, body |-> r.body]
    /\ UNCHANGED <<disk, pc, todo, PRODUCTS_MAP, PRODUCT_NAMES_MAP, RECOMMENDATIONS, before>>

\* GET /api/search?q=...
Search(q) == Respond("search", q, search_products(q, Current))

\* GET /api/products/top
GetTop == Respond("top", Null, get_top_products(Current))

(***************************************************************************)
(* The program: on_startup runs load_data to its end, then requests are    *)
(* served.                                                                 *)
(***************************************************************************)
Init ==
    /\ disk \in Disks
    /\ pc = "boot"
    /\ todo = <<>>
    /\ PRODUCTS_MAP = EmptyDict
    /\ PRODUCT_NAMES_MAP = EmptyDict
    /\ RECOMMENDATIONS = EmptyRecs
    /\ before = Globals(EmptyDict, EmptyDict, EmptyRecs)
    /\ resp = NoResp

Next ==
    \/ Startup
    \/ LoadOpenMatrix
    \/ LoadItem
    \/ LoadRecommendations
    \/ \E q \in Queries : pc = "serving" /\ Search(q)
    \/ pc = "serving" /\ GetTop

Spec == Init /\ [][Next]_vars

(***************************************************************************)
(* The same handlers when load_data is called again while requests are     *)
(* served (the handlers are plain functions run on worker threads, and     *)
(* load_data is a plain module function): the files may have changed, and  *)
(* a handler may run between any two steps of load_data.                   *)
(***************************************************************************)
ReloadDisks ==
    { Disk(FALSE, AbsentFile, AbsentFile, NoRecFile),
      Disk(TRUE, ListFile(<<ItemBa>>), AbsentFile, NoRecFile),
      Disk(TRUE, ListFile(<<ItemAb, ItemBa>>), AbsentFile,
           RecsMap(<<Entry(Key1, StubList(<<StubBa>>))>>)),
      Disk(TRUE, ListFile(<<ItemBa, ItemAb>>), AbsentFile,
           RecsMap(<<Entry(Key1, StubList(<<StubAb>>))>>)) }

ReloadQueries == {Str(<<"a", "b">>), Str(<<"z">>)}

\* a second call of load_data, after the files were replaced
Reload ==
    /\ pc = "serving"
    /\ disk' \in ReloadDisks
    /\ LoadBegin

InitReload ==
    /\ disk \in ReloadDisks
    /\ pc = "serving"
    /\ todo = <<>>
    /\ PRODUCTS_MAP = LoadData(disk).cat
    /\ PRODUCT_NAMES_MAP = LoadData(disk).names
    /\ RECOMMENDATIONS = LoadData(disk).recs
    /\ before = LoadData(disk)
    /\ resp = NoResp

NextReload ==
    \/ Reload
    \/ LoadOpenMatrix
    \/ LoadItem
    \/ LoadRecommendations
    \/ \E q \in ReloadQueries : Search(q)
    \/ GetTop

SpecReload == InitReload /\ [][NextReload]_vars

(***************************************************************************)
(* Vocabulary of the properties, stated on the request last served:        *)
(* resp.q is its parameter, resp.seen the globals it read.                 *)
(***************************************************************************)
Searched == resp.op = "search"

Returned == resp.stage \in {"empty", "brand", "recs", "fallback"}

\* the record has a brand, and it is the query up to letter case
BrandIs(p, query) == p.Brand.t = "str" /\ Lower(p.Brand.s) = query

\* the record has a name (a brand) and the query is a substring of it,
\* letter case ignored
NameHas(p, query) == p.product_name.t = "str" /\ Contains(query, Lower(p.product_name.s))

BrandHas(p, query) == p.Brand.t = "str" /\ Contains(query, Lower(p.Brand.s))

Pos(cat, k) == CHOOSE i \in 1..Len(cat) : cat[i].k = k

\* hits are entries of cat, each behind the one before it in cat
InCatalogOrder(hits, cat) ==
    /\ \A j \in 1..Len(hits) : DictHas(cat, hits[j].k) /\ DictGet(cat, hits[j].k) = hits[j].v
    /\ \A i, j \in 1..Len(hits) : i < j => Pos(cat, hits[i].k) < Pos(cat, hits[j].k)

First(s, n) == [i \in 1..(IF Len(s) < n THEN Len(s) ELSE n) |-> s[i]]

\* an empty, whitespace-only or absent q
Blank(q) == q.t = "null" \/ \A i \in 1..Len(q.s) : q.s[i] = " "

(***************************************************************************)
(* C1: every sequence search_products returns has at most 20 products,     *)
(* whichever stage (brand match, recommendation lookup, fallback scoring)  *)
(* produced it.                                                            *)
(***************************************************************************)
C1_AtMostTwenty ==
    Searched => Len(resp.body) <= 20

\* a brand search over a catalog of more than 20 matching records
C1_Witness ==
    /\ Searched
    /\ resp.stage = "brand"
    /\ Len(BrandMatches(Query(resp.q), resp.seen.cat)) > 20
    /\ Len(resp.body) = 20

(***************************************************************************)
(* C2: whenever the lowercased, trimmed query equals (letter case ignored) *)
(* the brand of at least one catalog record, search_products returns only  *)
(* records whose brand equals the query, in catalog order.                 *)
(***************************************************************************)
C2_BrandPrecedence ==
    LET query == Query(resp.q)
        cat   == resp.seen.cat
    IN  (Searched /\ \E i \in 1..Len(cat) : BrandIs(cat[i].v, query))
        => /\ Returned
           /\ \A j \in 1..Len(resp.hits) : BrandIs(resp.hits[j].v, query)
           /\ InCatalogOrder(resp.hits, cat)

\* the score as the fallback stage is described: a field that is missing
\* contains nothing
ClaimedScore(p, query) ==
    (IF NameHas(p, query) THEN 10 ELSE 0) + (IF BrandHas(p, query) THEN 5 ELSE 0)

ClaimedFallback(query, cat) ==
    First(Pick(cat, {i \in 1..Len(cat) : ClaimedScore(cat[i].v, query) = 15}, 1)
          \o Pick(cat, {i \in 1..Len(cat) : ClaimedScore(cat[i].v, query) = 10}, 1)
          \o Pick(cat, {i \in 1..Len(cat) : ClaimedScore(cat[i].v, query) = 5}, 1), 20)

(***************************************************************************)
(* C3: a response of the fallback stage is exactly the catalog records     *)
(* with score > 0 (10 if the query is a substring of the name, plus 5 if   *)
(* it is a substring of the brand), highest score first, records of equal  *)
(* score in catalog order, cut to 20.                                      *)
(***************************************************************************)
C3_FallbackScored ==
    (Searched /\ resp.stage = "fallback")
    => resp.hits = ClaimedFallback(Query(resp.q), resp.seen.cat)

\* the records the stubs resolve to through the name index, in stub order
ClaimedResolved(stubs, g) ==
    LET found == {i \in 1..Len(stubs) :
                     /\ stubs[i].kind = "dict"
                     /\ stubs[i].product_name.t = "str"
                     /\ DictHas(g.names, stubs[i].product_name.s)}
    IN  [j \in 1..Cardinality(found) |->
            LET i == CHOOSE i \in found : Cardinality({x \in found : x <= i}) = j
                pid == DictGet(g.names, stubs[i].product_name.s)
            IN  Entry(pid, DictGet(g.cat, pid))]

(***************************************************************************)
(* C4: when no brand matches, the anchor is the first catalog record whose *)
(* name contains the query; if the anchor's id is a key of the             *)
(* recommendation table and its stubs resolve, through the name index, to  *)
(* at least one record, the response is those records in recommendation    *)
(* order, cut to 20; otherwise the response is the fallback stage's.       *)
(***************************************************************************)
C4_Recommendation ==
    LET query   == Query(resp.q)
        g       == resp.seen
        anchors == {i \in 1..Len(g.cat) : NameHas(g.cat[i].v, query)}
        id      == g.cat[Min(anchors)].k
        inTable == /\ anchors # {}
                   /\ g.recs.kind = "dict"
                   /\ DictHas(g.recs.entries, id)
        found   == ClaimedResolved(DictGet(g.recs.entries, id).stubs, g)
    IN  (Searched /\ resp.stage \in {"recs", "fallback"})
        => IF inTable /\ found # <<>>
           THEN resp.stage = "recs" /\ resp.hits = First(found, 20)
           ELSE resp.stage = "fallback"

(***************************************************************************)
(* C5: a handler that runs while load_data runs never sees a partly        *)
(* populated state: what it reads is the complete state before the reload  *)
(* or the complete state after it.                                         *)
(***************************************************************************)
C5_AtomicReload ==
    resp.op \in {"search", "top"} => resp.seen \in {before, LoadData(disk)}

(***************************************************************************)
(* C6: search_products never raises to its caller, for every query and     *)
(* every state load_data can produce.                                      *)
(***************************************************************************)
C6_SearchNeverRaises == Searched => Returned

(***************************************************************************)
(* C7: for a non-empty query, a record without a brand field is never      *)
(* selected by the brand stage and never gets the +5 of the fallback       *)
(* stage, and a record without a name field never gets the +10.            *)
(***************************************************************************)
C7_MissingFieldNeverMatches ==
    LET query == Query(resp.q)
        cat   == resp.seen.cat
    IN  (Searched /\ query # <<>>)
        => /\ resp.stage = "brand"
              => \A j \in 1..Len(resp.hits) : resp.hits[j].v.Brand.t # "absent"
           /\ \A i \in 1..Len(cat) :
                 /\ cat[i].v.Brand.t = "absent"
                    => Score(query, cat[i].v) \in {0, NameScore}
                 /\ cat[i].v.product_name.t = "absent"
                    => Score(query, cat[i].v) \in {0, BrandScore}

(***************************************************************************)
(* C8: an empty or whitespace-only query, or an absent q, makes            *)
(* search_products return the empty sequence at once: no stage runs.       *)
(***************************************************************************)
C8_BlankQueryEmpty ==
    (Searched /\ Blank(resp.q)) => resp.stage = "empty" /\ resp.body = <<>>

\* a whitespace-only query over a catalog holding a record whose brand is
\* the empty string, which the brand stage would select
C8_Witness ==
    /\ Searched
    /\ resp.q = Str(<<" ", " ">>)
    /\ \E i \in 1..Len(resp.seen.cat) : BrandIs(resp.seen.cat[i].v, <<>>)
    /\ resp.body = <<>>

(***************************************************************************)
(* C9: after load_data, no key of the catalog and no id of the name index  *)
(* is "N/A" or "None".                                                     *)
(***************************************************************************)
C9_NoPlaceholderIds ==
    pc = "serving"
    => /\ \A i \in 1..Len(PRODUCTS_MAP) : PRODUCTS_MAP[i].k \notin {NAStr, NoneStr}
       /\ \A i \in 1..Len(PRODUCT_NAMES_MAP) : PRODUCT_NAMES_MAP[i].v \notin {NAStr, NoneStr}

\* a record whose id field is present and not null
UsableId(item) ==
    /\ item.kind = "dict"
    /\ Get(item.product_id_numeric, item.product_id).t \in {"str", "num"}

(***************************************************************************)
(* C10: after load_data on a matrix file that parses, every list element   *)
(* that is a record with a usable id (an id field that is present and not  *)
(* null) is in the catalog, whatever else the file holds.                  *)
(***************************************************************************)
C10_NoRecordLost ==
    LET items == DataList(MatrixPath(disk))
    IN  (pc = "serving" /\ disk.dir)
        => \A i \in 1..Len(items) :
              UsableId(items[i]) => DictHas(PRODUCTS_MAP, PidOf(items[i]))

====
